---- MODULE Spec2Model ----
(***************************************************************************)
(* Health monitor (src/health_monitor/main_simulator.py).                  *)
(*                                                                         *)
(* HealthMonitor.run starts one thread running simulate_button_press and   *)
(* runs monitor_loop on the main thread.  Both threads share the fields of *)
(* the HealthMonitor object, the module-level GPIO pin registry and one    *)
(* sqlite connection, without any lock.  Each action below is one step of  *)
(* one thread between two points where the other thread may run; a Python *)
(* statement that reads and then writes a shared field (x += 1) is two     *)
(* steps.                                                                  *)
(***************************************************************************)
EXTENDS Integers, Sequences, FiniteSets, TLC

\* ---------------------------------------------------------------- constants
RED_LED == 17
GREEN_LED == 27
BUTTON == 22
HR_MIN == 60
HR_MAX == 100
SPO2_MIN == 95
\* range(3) of the acknowledgement flash
FLASH_COUNT == 3

\* ------------------------------------------------------------------- bounds
\* sampling passes of monitor_loop
MaxSamples == 2
\* daily_summary calls of monitor_loop
MaxSummaries == 1
\* simulated button presses of simulate_button_press
MaxPresses == 2
\* invocations of button_callback by the concurrent callers of SpecFirings
MaxFirings == 2
\* domain of the classification inputs of SpecClassify
HrDomainMax == 300
Spo2DomainMax == 100
\* appends and advances of the clock in SpecStore
MaxAppends == 2
MaxTicks == 2

\* ------------------------------------------------------------------ threads
MainThread == "main"
ButtonThread == "button"
\* concurrent invokers of button_callback (SpecFirings)
Callers == {"c1", "c2"}
\* the invoker of check_vitals in SpecClassify
Classifier == "c1"
\* the caller of the sensor in SpecSensor and of the store in SpecStore
Prober == "q"
Threads == {MainThread, ButtonThread, Prober} \cup Callers

\* seconds in a day and in an hour: timestamps are counted in seconds
DaySeconds == 86400
HourSeconds == 3600
\* DATE(timestamp)
DayOf(ts) == ts \div DaySeconds

\* Values SimulatedSensor.read can return: hr in 50..130; spo2 in 95..100
\* (base_spo2 98, trend >= -2, jitter >= -1).  Two of them, one on each side
\* of the threshold window.  The sensor's own fields (trends, base_hr, which
\* simulate_activity moves) are read by no code outside the sensor.
Samples == {<<75, 98>>, <<110, 97>>}

\* Contents health_data.db may have when the monitor starts: none (first
\* run), or a row written on an earlier day.
InitialStores ==
    { <<>>,
      << [id |-> 1, day |-> 0, ts |-> 0, heart_rate |-> 75, spo2 |-> 98,
          status |-> "Normal"] >> }

\* LIMIT 100 of get_recent_data, and the default limit of get_history
RECENT_LIMIT == 100

\* no summary being made
NoSummary == [printed |-> -1, stored |-> -1]

\* no query made yet
NoResult ==
    [fn |-> "none", hours |-> 0, limit |-> 0, at |-> 0, n |-> 0,
     rows |-> <<>>, stats |-> <<>>, prev |-> <<>>]

VARIABLES
    pc,              \* position of each thread
    hr, spo2,        \* locals hr, spo2 of button_callback / monitor_loop
    status,          \* local status
    reg,             \* value of the counter loaded by an in-progress +=
    flash,           \* loop index of the acknowledgement flash
    sent,            \* outcome of the thread's last send_to_cloud call
    result_count,    \* result[2] of daily_summary
    current_hr, current_spo2, current_status,
    running, button_pressed,
    reading_count, alert_count,
    pins,            \* GPIO.pins[pin]['state']
    readings,        \* rows of table readings, in insertion order
    conn_open,       \* self.conn is open
    today,           \* DATE('now'); a run stays within one day
    nsend,           \* send_to_cloud calls made by the thread's current cycle
    nsamples, nsummaries, npresses, nfirings,  \* passes made so far
    summary_alerts,  \* the alert count the last daily_summary printed
    nalerts,         \* classifications that returned Alert, so far
    nappends,        \* INSERTs committed since the monitor started
    sensor,          \* fields of SimulatedSensor
    now,             \* the clock, in seconds since the monitor started
    qresult,         \* what the last store query returned
    nticks           \* advances of the clock so far (SpecStore)

vars == <<pc, hr, spo2, status, reg, flash, sent, result_count,
          current_hr, current_spo2, current_status, running, button_pressed,
          reading_count, alert_count, pins, readings, conn_open, today,
          nsend, nsamples, nsummaries, npresses, nfirings, summary_alerts,
          nalerts, nappends, sensor, now, qresult, nticks>>

\* groups, for UNCHANGED
sampleLocals == <<hr, spo2, status>>
current == <<current_hr, current_spo2, current_status>>
counters == <<reading_count, alert_count>>
store == <<readings, conn_open, today>>
passes == <<nsamples, nsummaries, npresses, nfirings>>
\* observations of the run: they record, and steer nothing
ghost == <<summary_alerts, nalerts, nappends>>
\* state of the sensor, the clock and the query results, which the steps of
\* the monitor's two threads leave alone (they take the sensor's values from
\* Samples, and a run is short against the clock)
apart == <<sensor, now, qresult, nticks>>

Goto(t, l) == pc' = [pc EXCEPT ![t] = l]

\* ------------------------------------------------------------ HealthMonitor
\* is_normal with the bounds of the heart-rate window excluded
IsNormalExclusive(h, s) == HR_MIN < h /\ h < HR_MAX /\ s >= SPO2_MIN

\* is_normal of check_vitals
IsNormal(h, s) == HR_MIN <= h /\ h <= HR_MAX /\ s >= SPO2_MIN

\* the status check_vitals assigns on each branch
VitalsStatus(h, s) == IF IsNormal(h, s) THEN "Normal" ELSE "Alert"

\* SimulatedGPIO.output: sets the pin's state when the pin was set up
GpioOutput(p, pin, state) ==
    IF pin \in DOMAIN p THEN [p EXCEPT ![pin] = state] ELSE p

\* where a thread continues after button_callback returns
AfterCallback(t) == IF t = ButtonThread THEN "s_while" ELSE "h_idle"

\* a button_callback that goes from check_vitals straight to send_to_cloud
AfterCheckVitalsSkipsSave(t) == IF t = MainThread THEN "m_sumchk" ELSE "sc_call"

\* where a thread continues after check_vitals returns
AfterCheckVitals(t) == IF t = MainThread THEN "m_sumchk" ELSE "db_insert"

\* HealthMonitor.__init__ (state common to every specification)
InitMonitor ==
    /\ status = [t \in Threads |-> "none"]
    /\ reg = [t \in Threads |-> 0]
    /\ flash = [t \in Threads |-> 0]
    /\ sent = [t \in Threads |-> "none"]
    /\ result_count = 0
    /\ current_hr = 75
    /\ current_spo2 = 98
    /\ current_status = "Normal"
    /\ running = TRUE
    /\ button_pressed = FALSE
    /\ reading_count = 0
    /\ alert_count = 0
    /\ pins = [p \in {RED_LED, GREEN_LED, BUTTON} |-> FALSE]
    /\ conn_open = TRUE
    /\ today = 1
    /\ nsend = [t \in Threads |-> 0]
    /\ nsamples = 0
    /\ nsummaries = 0
    /\ npresses = 0
    /\ nfirings = 0
    /\ summary_alerts = NoSummary
    /\ nalerts = 0
    /\ nappends = 0
    /\ sensor = [base_hr |-> 75, base_spo2 |-> 98, hr_trend |-> 0,
                 spo2_trend |-> 0]
    /\ now = DaySeconds
    /\ qresult = NoResult
    /\ nticks = 0

\* run: the main thread enters monitor_loop, the button thread
\* simulate_button_press
Init ==
    /\ InitMonitor
    /\ readings \in InitialStores
    /\ hr = [t \in Threads |-> 0]
    /\ spo2 = [t \in Threads |-> 0]
    /\ pc = [t \in Threads |->
               IF t = MainThread THEN "m_while"
               ELSE IF t = ButtonThread THEN "s_while" ELSE "off"]

\* read_sensors, first half: hr, spo2 = self.sensor.read(); self.current_hr = hr
ReadSensorsHr(t) ==
    /\ pc[t] = "rs_hr"
    /\ \E s \in Samples :
          /\ hr' = [hr EXCEPT ![t] = s[1]]
          /\ spo2' = [spo2 EXCEPT ![t] = s[2]]
          /\ current_hr' = s[1]
    /\ Goto(t, "rs_spo2")
    /\ UNCHANGED <<status, reg, flash, sent, result_count, current_spo2,
                   current_status, running, button_pressed, counters, pins,
                   store, nsend, passes,
                   ghost, apart>>

\* read_sensors, second half: self.current_spo2 = spo2
ReadSensorsSpo2(t) ==
    /\ pc[t] = "rs_spo2"
    /\ current_spo2' = spo2[t]
    /\ Goto(t, "cv_led1")
    /\ UNCHANGED <<sampleLocals, reg, flash, sent, result_count, current_hr,
                   current_status, running, button_pressed, counters, pins,
                   store, nsend, passes,
                   ghost, apart>>

\* check_vitals: the first GPIO.output of the taken branch
CheckVitalsLed1(t) ==
    /\ pc[t] = "cv_led1"
    /\ pins' = IF IsNormal(hr[t], spo2[t])
                 THEN GpioOutput(pins, GREEN_LED, TRUE)
                 ELSE GpioOutput(pins, RED_LED, TRUE)
    /\ Goto(t, "cv_led2")
    /\ UNCHANGED <<sampleLocals, reg, flash, sent, result_count, current,
                   running, button_pressed, counters, store, nsend, passes,
                   ghost, apart>>

\* check_vitals: the second GPIO.output of the taken branch; status = ...
CheckVitalsLed2(t) ==
    /\ pc[t] = "cv_led2"
    /\ IF IsNormal(hr[t], spo2[t])
         THEN /\ pins' = GpioOutput(pins, RED_LED, FALSE)
              /\ Goto(t, "cv_status")
         ELSE /\ pins' = GpioOutput(pins, GREEN_LED, FALSE)
              /\ Goto(t, "cv_load")
    /\ status' = [status EXCEPT ![t] = VitalsStatus(hr[t], spo2[t])]
    /\ nalerts' = IF IsNormal(hr[t], spo2[t]) THEN nalerts ELSE nalerts + 1
    /\ UNCHANGED <<hr, spo2, reg, flash, sent, result_count, current, running,
                   button_pressed, counters, store, nsend, passes,
                   summary_alerts, nappends, apart>>

\* check_vitals: self.alert_count += 1, the load
CheckVitalsLoad(t) ==
    /\ pc[t] = "cv_load"
    /\ reg' = [reg EXCEPT ![t] = alert_count]
    /\ Goto(t, "cv_store")
    /\ UNCHANGED <<sampleLocals, flash, sent, result_count, current, running,
                   button_pressed, counters, pins, store, nsend, passes,
                   ghost, apart>>

\* check_vitals: self.alert_count += 1, the store
CheckVitalsStore(t) ==
    /\ pc[t] = "cv_store"
    /\ alert_count' = reg[t] + 1
    /\ reg' = [reg EXCEPT ![t] = 0]
    /\ Goto(t, "cv_status")
    /\ UNCHANGED <<sampleLocals, flash, sent, result_count, current, running,
                   button_pressed, reading_count, pins, store, nsend, passes,
                   ghost, apart>>

\* check_vitals: self.current_status = status; return status
CheckVitalsStatus(t) ==
    /\ pc[t] = "cv_status"
    /\ current_status' = status[t]
    /\ Goto(t, AfterCheckVitals(t))
    /\ UNCHANGED <<sampleLocals, reg, flash, sent, result_count, current_hr,
                   current_spo2, running, button_pressed, counters, pins,
                   store, nsend, passes,
                   ghost, apart>>

CheckVitals(t) ==
    \/ CheckVitalsLed1(t)
    \/ CheckVitalsLed2(t)
    \/ CheckVitalsLoad(t)
    \/ CheckVitalsStore(t)
    \/ CheckVitalsStatus(t)

\* save_to_database returns into button_callback, which sends; the prober
\* calls it on its own
AfterSave(t) == IF t = Prober THEN "q_idle" ELSE "sc_call"

\* id INTEGER PRIMARY KEY AUTOINCREMENT: one more than the largest id given
NextId(rows) == IF rows = <<>> THEN 1 ELSE rows[Len(rows)].id + 1

\* save_to_database: INSERT INTO readings ...; commit.  sqlite raises when the
\* medium fails or the connection is closed; nothing in the caller catches
\* it, so the calling thread ends.
SaveInsert(t) ==
    /\ pc[t] = "db_insert"
    /\ \/ /\ conn_open
          /\ readings' = Append(readings,
                [id |-> NextId(readings), day |-> today, ts |-> now,
                 heart_rate |-> hr[t], spo2 |-> spo2[t],
                 status |-> status[t]])
          /\ nappends' = nappends + 1
          /\ Goto(t, "rc_load")
       \/ /\ readings' = readings
          /\ nappends' = nappends
          /\ Goto(t, "t_crashed")
    /\ UNCHANGED <<sampleLocals, reg, flash, sent, result_count, current,
                   running, button_pressed, counters, pins, conn_open, today,
                   nsend, passes,
                   summary_alerts, nalerts, apart>>

\* save_to_database: self.reading_count += 1, the load
SaveLoad(t) ==
    /\ pc[t] = "rc_load"
    /\ reg' = [reg EXCEPT ![t] = reading_count]
    /\ Goto(t, "rc_store")
    /\ UNCHANGED <<sampleLocals, flash, sent, result_count, current, running,
                   button_pressed, counters, pins, store, nsend, passes,
                   ghost, apart>>

\* save_to_database: self.reading_count += 1, the store
SaveStore(t) ==
    /\ pc[t] = "rc_store"
    /\ reading_count' = reg[t] + 1
    /\ reg' = [reg EXCEPT ![t] = 0]
    /\ Goto(t, AfterSave(t))
    /\ UNCHANGED <<sampleLocals, flash, sent, result_count, current, running,
                   button_pressed, alert_count, pins, store, nsend, passes,
                   ghost, apart>>

SaveToDatabase(t) == SaveInsert(t) \/ SaveLoad(t) \/ SaveStore(t)

\* where a thread continues after send_to_cloud returns ok (TRUE / FALSE):
\* daily_summary drops the result; button_callback flashes on TRUE
AfterSend(t, ok) ==
    IF t = MainThread THEN "ds_done" ELSE IF ok THEN "fl_on" ELSE "b_clear"

\* send_to_cloud is entered: print, time.sleep(0.5)
SendCall(t) ==
    /\ pc[t] = "sc_call"
    /\ nsend' = [nsend EXCEPT ![t] = @ + 1]
    /\ sent' = [sent EXCEPT ![t] = "none"]
    /\ Goto(t, "sc_wait")
    /\ UNCHANGED <<sampleLocals, reg, flash, result_count, current, running,
                   button_pressed, counters, pins, store, passes,
                   ghost, apart>>

\* send_to_cloud that, instead of returning False, sends again
SendReturnRetries(t) ==
    /\ pc[t] = "sc_wait"
    /\ \E ok \in BOOLEAN :
          /\ sent' = [sent EXCEPT ![t] = IF ok THEN "ok" ELSE "fail"]
          /\ Goto(t, IF ok THEN AfterSend(t, ok) ELSE "sc_call")
    /\ UNCHANGED <<sampleLocals, reg, flash, result_count, current, running,
                   button_pressed, counters, pins, store, nsend, passes,
                   ghost, apart>>

\* send_to_cloud returns: True when random.random() > 0.1, else False
SendReturn(t) ==
    /\ pc[t] = "sc_wait"
    /\ \E ok \in BOOLEAN :
          /\ sent' = [sent EXCEPT ![t] = IF ok THEN "ok" ELSE "fail"]
          /\ Goto(t, AfterSend(t, ok))
    /\ UNCHANGED <<sampleLocals, reg, flash, result_count, current, running,
                   button_pressed, counters, pins, store, nsend, passes,
                   ghost, apart>>

SendToCloud(t) == SendCall(t) \/ SendReturn(t)

\* button_callback: if not self.button_pressed
CallbackCheck(t) ==
    /\ pc[t] = "b_check"
    /\ IF ~button_pressed THEN Goto(t, "b_set") ELSE Goto(t, AfterCallback(t))
    /\ UNCHANGED <<sampleLocals, reg, flash, sent, result_count, current,
                   running, button_pressed, counters, pins, store, nsend,
                   passes,
                   ghost, apart>>

\* button_callback: self.button_pressed = True
CallbackSet(t) ==
    /\ pc[t] = "b_set"
    /\ button_pressed' = TRUE
    /\ Goto(t, "rs_hr")
    /\ UNCHANGED <<sampleLocals, reg, flash, sent, result_count, current,
                   running, counters, pins, store, nsend, passes,
                   ghost, apart>>

\* button_callback, the flash loop: GPIO.output(GREEN_LED, True); sleep
FlashOn(t) ==
    /\ pc[t] = "fl_on"
    /\ pins' = GpioOutput(pins, GREEN_LED, TRUE)
    /\ Goto(t, "fl_off")
    /\ UNCHANGED <<sampleLocals, reg, flash, sent, result_count, current,
                   running, button_pressed, counters, store, nsend, passes,
                   ghost, apart>>

\* button_callback, the flash loop: GPIO.output(GREEN_LED, False); sleep
FlashOff(t) ==
    /\ pc[t] = "fl_off"
    /\ pins' = GpioOutput(pins, GREEN_LED, FALSE)
    /\ IF flash[t] + 1 < FLASH_COUNT
         THEN /\ flash' = [flash EXCEPT ![t] = @ + 1]
              /\ Goto(t, "fl_on")
         ELSE /\ flash' = [flash EXCEPT ![t] = 0]
              /\ Goto(t, "b_clear")
    /\ UNCHANGED <<sampleLocals, reg, sent, result_count, current, running,
                   button_pressed, counters, store, nsend, passes,
                   ghost, apart>>

\* button_callback: self.button_pressed = False; return (the locals die)
CallbackClear(t) ==
    /\ pc[t] = "b_clear"
    /\ button_pressed' = FALSE
    /\ hr' = [hr EXCEPT ![t] = 0]
    /\ spo2' = [spo2 EXCEPT ![t] = 0]
    /\ status' = [status EXCEPT ![t] = "none"]
    /\ sent' = [sent EXCEPT ![t] = "none"]
    /\ nsend' = [nsend EXCEPT ![t] = 0]
    /\ Goto(t, AfterCallback(t))
    /\ UNCHANGED <<reg, flash, result_count, current, running, counters,
                   pins, store, passes,
                   ghost, apart>>

ButtonCallback(t) ==
    \/ CallbackCheck(t)
    \/ CallbackSet(t)
    \/ ReadSensorsHr(t)
    \/ ReadSensorsSpo2(t)
    \/ CheckVitals(t)
    \/ SaveToDatabase(t)
    \/ SendToCloud(t)
    \/ FlashOn(t)
    \/ FlashOff(t)
    \/ CallbackClear(t)

\* COUNT(*) ... WHERE DATE(timestamp) = DATE('now')
CountToday(rows, d) == Cardinality({i \in 1..Len(rows) : rows[i].day = d})

\* the rows of date d with status Alert: what the store holds for the window
\* of the summary
AlertsToday(rows, d) ==
    Cardinality({i \in 1..Len(rows) :
                    rows[i].day = d /\ rows[i].status = "Alert"})

\* daily_summary without the test result[2] > 0: it sends whatever the count
SummaryQueryAlwaysSends ==
    /\ pc[MainThread] = "ds_query"
    /\ \/ /\ conn_open
          /\ result_count' = CountToday(readings, today)
          /\ summary_alerts' = [summary_alerts EXCEPT
                                  !.stored = AlertsToday(readings, today)]
          /\ Goto(MainThread, "sc_call")
       \/ /\ result_count' = result_count
          /\ summary_alerts' = summary_alerts
          /\ Goto(MainThread, "m_crashed")
    /\ UNCHANGED <<sampleLocals, reg, flash, sent, current, running,
                   button_pressed, counters, pins, store, nsend, passes,
                   nalerts, nappends, apart>>

\* daily_summary: the aggregate query and the test result[2] > 0.  A sqlite
\* error is caught nowhere (run catches KeyboardInterrupt only): it ends the
\* main thread.
SummaryQuery ==
    /\ pc[MainThread] = "ds_query"
    /\ \/ /\ conn_open
          /\ result_count' = CountToday(readings, today)
          /\ summary_alerts' = [summary_alerts EXCEPT
                                  !.stored = AlertsToday(readings, today)]
          /\ IF CountToday(readings, today) > 0
               THEN Goto(MainThread, "ds_print")
               ELSE Goto(MainThread, "ds_done")
       \/ /\ result_count' = result_count
          /\ summary_alerts' = summary_alerts
          /\ Goto(MainThread, "m_crashed")
    /\ UNCHANGED <<sampleLocals, reg, flash, sent, current, running,
                   button_pressed, counters, pins, store, nsend, passes,
                   nalerts, nappends, apart>>

\* daily_summary: print(f"Alerts Today: {self.alert_count}"), then the call
\* of send_to_cloud
SummaryPrint ==
    /\ pc[MainThread] = "ds_print"
    /\ summary_alerts' = [summary_alerts EXCEPT !.printed = alert_count]
    /\ Goto(MainThread, "sc_call")
    /\ UNCHANGED <<sampleLocals, reg, flash, sent, result_count, current,
                   running, button_pressed, counters, pins, store, nsend,
                   passes, nalerts, nappends, apart>>

\* daily_summary returns; monitor_loop: last_summary_time = current_time;
\* time.sleep(0.1)
SummaryDone ==
    /\ pc[MainThread] = "ds_done"
    /\ result_count' = 0
    /\ summary_alerts' = NoSummary
    /\ sent' = [sent EXCEPT ![MainThread] = "none"]
    /\ nsend' = [nsend EXCEPT ![MainThread] = 0]
    /\ Goto(MainThread, "m_while")
    /\ UNCHANGED <<sampleLocals, reg, flash, current, running, button_pressed,
                   counters, pins, store, passes,
                   nalerts, nappends, apart>>

DailySummary ==
    SummaryQuery \/ SummaryPrint \/ SummaryDone \/ SendToCloud(MainThread)

\* monitor_loop: while self.running; current_time = time.time();
\* current_time - last_display_time >= 1.  The elapsed time is the
\* environment's; last_display_time starts at 0, so the first pass samples.
LoopWhile ==
    /\ pc[MainThread] = "m_while"
    /\ IF running
         THEN \/ /\ nsamples < MaxSamples
                 /\ nsamples' = nsamples + 1
                 /\ Goto(MainThread, "rs_hr")
              \/ /\ nsamples > 0
                 /\ nsamples' = nsamples
                 /\ Goto(MainThread, "m_sumchk")
         ELSE /\ nsamples' = nsamples
              /\ Goto(MainThread, "m_returned")
    /\ UNCHANGED <<sampleLocals, reg, flash, sent, result_count, current,
                   running, button_pressed, counters, pins, store, nsend,
                   nsummaries, npresses, nfirings,
                   ghost, apart>>

\* monitor_loop: current_time - last_summary_time >= 60, and when it is not,
\* time.sleep(0.1); hr, spo2, status are dead until reassigned
LoopSummaryDue ==
    /\ pc[MainThread] = "m_sumchk"
    /\ hr' = [hr EXCEPT ![MainThread] = 0]
    /\ spo2' = [spo2 EXCEPT ![MainThread] = 0]
    /\ status' = [status EXCEPT ![MainThread] = "none"]
    /\ \/ /\ nsummaries < MaxSummaries
          /\ nsummaries' = nsummaries + 1
          /\ Goto(MainThread, "ds_query")
       \/ /\ nsummaries' = nsummaries
          /\ Goto(MainThread, "m_while")
    /\ UNCHANGED <<reg, flash, sent, result_count, current, running,
                   button_pressed, counters, pins, store, nsend, nsamples,
                   npresses, nfirings,
                   ghost, apart>>

MonitorLoop ==
    \/ LoopWhile
    \/ ReadSensorsHr(MainThread)
    \/ ReadSensorsSpo2(MainThread)
    \/ CheckVitals(MainThread)
    \/ LoopSummaryDue
    \/ DailySummary

\* positions of the main thread inside monitor_loop
MonitorPcs ==
    {"m_while", "rs_hr", "rs_spo2", "cv_led1", "cv_led2", "cv_load",
     "cv_store", "cv_status", "m_sumchk", "ds_query", "ds_print", "sc_call",
     "sc_wait", "ds_done"}

\* run: KeyboardInterrupt is raised in the main thread, wherever it is in
\* monitor_loop; the frames of monitor_loop are unwound
RunInterrupt ==
    /\ pc[MainThread] \in MonitorPcs
    /\ hr' = [hr EXCEPT ![MainThread] = 0]
    /\ spo2' = [spo2 EXCEPT ![MainThread] = 0]
    /\ status' = [status EXCEPT ![MainThread] = "none"]
    /\ reg' = [reg EXCEPT ![MainThread] = 0]
    /\ sent' = [sent EXCEPT ![MainThread] = "none"]
    /\ nsend' = [nsend EXCEPT ![MainThread] = 0]
    /\ result_count' = 0
    /\ summary_alerts' = NoSummary
    /\ Goto(MainThread, "x_stop")
    /\ UNCHANGED <<flash, current, running, button_pressed, counters, pins,
                   store, passes,
                   nalerts, nappends, apart>>

\* run, except KeyboardInterrupt: self.running = False
RunStop ==
    /\ pc[MainThread] = "x_stop"
    /\ running' = FALSE
    /\ Goto(MainThread, "x_join")
    /\ UNCHANGED <<sampleLocals, reg, flash, sent, result_count, current,
                   button_pressed, counters, pins, store, nsend, passes,
                   ghost, apart>>

\* run: button_thread.join() returns once the button thread has ended
RunJoin ==
    /\ pc[MainThread] = "x_join"
    /\ pc[ButtonThread] \in {"t_done", "t_crashed"}
    /\ Goto(MainThread, "x_cleanup")
    /\ UNCHANGED <<sampleLocals, reg, flash, sent, result_count, current,
                   running, button_pressed, counters, pins, store, nsend,
                   passes,
                   ghost, apart>>

\* SimulatedGPIO.cleanup: prints, and leaves the pins as they are
GpioCleanup(p) == p

\* run: GPIO.cleanup()
RunCleanup ==
    /\ pc[MainThread] = "x_cleanup"
    /\ pins' = GpioCleanup(pins)
    /\ Goto(MainThread, "x_close")
    /\ UNCHANGED <<sampleLocals, reg, flash, sent, result_count, current,
                   running, button_pressed, counters, store, nsend, passes,
                   ghost, apart>>

\* run: self.conn.close()
RunClose ==
    /\ pc[MainThread] = "x_close"
    /\ conn_open' = FALSE
    /\ Goto(MainThread, "x_done")
    /\ UNCHANGED <<sampleLocals, reg, flash, sent, result_count, current,
                   running, button_pressed, counters, pins, readings, today,
                   nsend, passes,
                   ghost, apart>>

Shutdown == RunInterrupt \/ RunStop \/ RunJoin \/ RunCleanup \/ RunClose

\* simulate_button_press: while self.running: time.sleep(random.uniform(10, 30))
PressWhile ==
    /\ pc[ButtonThread] = "s_while"
    /\ IF running THEN Goto(ButtonThread, "s_if")
                  ELSE Goto(ButtonThread, "t_done")
    /\ UNCHANGED <<sampleLocals, reg, flash, sent, result_count, current,
                   running, button_pressed, counters, pins, store, nsend,
                   passes,
                   ghost, apart>>

\* simulate_button_press: if self.running and random.random() > 0.7:
\* self.button_callback()
PressIf ==
    /\ pc[ButtonThread] = "s_if"
    /\ \/ /\ running
          /\ npresses < MaxPresses
          /\ npresses' = npresses + 1
          /\ Goto(ButtonThread, "b_check")
       \/ /\ npresses' = npresses
          /\ Goto(ButtonThread, "s_while")
    /\ UNCHANGED <<sampleLocals, reg, flash, sent, result_count, current,
                   running, button_pressed, counters, pins, store, nsend,
                   nsamples, nsummaries, nfirings,
                   ghost, apart>>

SimulateButtonPress ==
    \/ PressWhile
    \/ PressIf
    \/ ButtonCallback(ButtonThread)

Next == MonitorLoop \/ Shutdown \/ SimulateButtonPress

Spec == Init /\ [][Next]_vars

\* ------------------------------------------------- concurrent invocations
\* button_callback(channel) is the handler of the button's edge event.  Here
\* it is invoked by two callers at once, each any number of times up to
\* MaxFirings in all, with no monitor loop running.
InitFirings ==
    /\ InitMonitor
    /\ readings \in InitialStores
    /\ hr = [t \in Threads |-> 0]
    /\ spo2 = [t \in Threads |-> 0]
    /\ pc = [t \in Threads |-> IF t \in Callers THEN "h_idle" ELSE "off"]

\* one caller invokes button_callback
Fire(t) ==
    /\ pc[t] = "h_idle"
    /\ nfirings < MaxFirings
    /\ nfirings' = nfirings + 1
    /\ Goto(t, "b_check")
    /\ UNCHANGED <<sampleLocals, reg, flash, sent, result_count, current,
                   running, button_pressed, counters, pins, store, nsend,
                   nsamples, nsummaries, npresses,
                   ghost, apart>>

NextFirings == \E t \in Callers : Fire(t) \/ ButtonCallback(t)

SpecFirings == InitFirings /\ [][NextFirings]_vars

\* ------------------------------------------------ classification, alone
\* check_vitals(hr, spo2) applied once to every pair of the readings' domain
InitClassify ==
    /\ InitMonitor
    /\ readings \in InitialStores
    /\ \E h \in 0..HrDomainMax :
          hr = [t \in Threads |-> IF t = Classifier THEN h ELSE 0]
    /\ \E s \in 0..Spo2DomainMax :
          spo2 = [t \in Threads |-> IF t = Classifier THEN s ELSE 0]
    /\ pc = [t \in Threads |-> IF t = Classifier THEN "cv_led1" ELSE "off"]

NextClassify == CheckVitals(Classifier)

SpecClassify == InitClassify /\ [][NextClassify]_vars

\* ------------------------------------------------------- SimulatedSensor
\* The trends are floats, moved by random.uniform(-0.5, 0.5) and
\* random.uniform(-0.2, 0.2).  They are held here in tenths, and the moves
\* drawn are the two ends of each interval and 0.
Scale == 10
HrTrendMoves == {-5, 0, 5}
Spo2TrendMoves == {-2, 0, 2}
\* random.randint(-3, 3) and random.randint(-1, 1): the ends and the middle
HrJitter == {-3, 0, 3}
Spo2Jitter == {-1, 0, 1}
\* base_hr after simulate_activity: the least and the greatest of
\* randint(60, 70), randint(70, 85) and randint(85, 110)
ActivityBases == {60, 110}

\* max(lo, x): the clamp without its upper bound
ClampLowOnly(lo, hi, x) == IF x < lo THEN lo ELSE x

\* max(lo, min(hi, x))
Clamp(lo, hi, x) == IF x < lo THEN lo ELSE IF x > hi THEN hi ELSE x

\* int(x) of a float given in tenths: truncation toward zero
IntOfTenths(x) == IF x >= 0 THEN x \div Scale ELSE -((-x) \div Scale)

\* SimulatedSensor.read, as one call: the sensor after it and the pair returned
SensorRead(t) ==
    /\ pc[t] \in {"sn_start", "sn_sampled"}
    /\ \E dh \in HrTrendMoves, ds \in Spo2TrendMoves,
          jh \in HrJitter, js \in Spo2Jitter :
          LET ht == Clamp(-5 * Scale, 5 * Scale, sensor.hr_trend + dh)
              st == Clamp(-2 * Scale, 2 * Scale, sensor.spo2_trend + ds)
              h  == IntOfTenths((sensor.base_hr + jh) * Scale + ht)
              o  == IntOfTenths((sensor.base_spo2 + js) * Scale + st)
          IN /\ sensor' = [sensor EXCEPT !.hr_trend = ht, !.spo2_trend = st]
             /\ hr' = [hr EXCEPT ![t] = Clamp(50, 130, h)]
             /\ spo2' = [spo2 EXCEPT ![t] = Clamp(90, 100, o)]
    /\ Goto(t, "sn_sampled")
    /\ UNCHANGED <<status, reg, flash, sent, result_count, current, running,
                   button_pressed, counters, pins, store, nsend, passes,
                   ghost, now, qresult, nticks>>

\* SimulatedSensor.simulate_activity
SimulateActivity(t) ==
    /\ pc[t] \in {"sn_start", "sn_sampled"}
    /\ \E b \in ActivityBases : sensor' = [sensor EXCEPT !.base_hr = b]
    /\ UNCHANGED <<pc, sampleLocals, reg, flash, sent, result_count, current,
                   running, button_pressed, counters, pins, store, nsend,
                   passes, ghost, now, qresult, nticks>>

\* any sequence of read and simulate_activity calls on a new sensor
InitSensor ==
    /\ InitMonitor
    /\ readings \in InitialStores
    /\ hr = [t \in Threads |-> 0]
    /\ spo2 = [t \in Threads |-> 0]
    /\ pc = [t \in Threads |-> IF t = Prober THEN "sn_start" ELSE "off"]

NextSensor == SensorRead(Prober) \/ SimulateActivity(Prober)

SpecSensor == InitSensor /\ [][NextSensor]_vars

\* ------------------------------------------------------ the store's queries
\* hours arguments of get_recent_data and get_history (default 24)
WindowHours == {0, 1, 24}
\* limit arguments of get_history (default 100)
HistoryLimits == {1, RECENT_LIMIT}
\* advances of the clock between two calls: a second, an hour, a day
TickSteps == {1, HourSeconds, DaySeconds}

\* a store of one row more than the LIMIT, written late on the day before
BigStore ==
    [i \in 1..(RECENT_LIMIT + 1) |->
        [id |-> i, day |-> 0, ts |-> DaySeconds - (RECENT_LIMIT + 2) + i,
         heart_rate |-> 75, spo2 |-> 98, status |-> "Normal"]]

\* SELECT timestamp, heart_rate, spo2, status
Columns(r) ==
    [ts |-> r.ts, heart_rate |-> r.heart_rate, spo2 |-> r.spo2,
     status |-> r.status]

\* WHERE timestamp >= datetime('now', '-{} hours'): the cutoff included
MatchingInclusive(rows, at, hours) ==
    SelectSeq(rows, LAMBDA r : r.ts >= at - hours * HourSeconds)

\* WHERE timestamp > datetime('now', '-{} hours')
Matching(rows, at, hours) ==
    SelectSeq(rows, LAMBDA r : r.ts > at - hours * HourSeconds)

RECURSIVE InsertDesc(_, _)
InsertDesc(r, sorted) ==
    IF sorted = <<>> THEN <<r>>
    ELSE IF r.ts >= Head(sorted).ts THEN <<r>> \o sorted
    ELSE <<Head(sorted)>> \o InsertDesc(r, Tail(sorted))

RECURSIVE SortDesc(_)
SortDesc(rows) ==
    IF rows = <<>> THEN <<>>
    ELSE InsertDesc(rows[Len(rows)], SortDesc(SubSeq(rows, 1, Len(rows) - 1)))

\* data.reverse()
Reverse(rows) == [i \in 1..Len(rows) |-> rows[Len(rows) + 1 - i]]

\* the rows are in the order of their timestamps, no two of the same second
Ascending(rows) ==
    \A i \in 1..(Len(rows) - 1) : rows[i].ts < rows[i + 1].ts

\* ORDER BY timestamp DESC: the rows sorted, which is the rows reversed when
\* they already are in the order of their timestamps
OrderByTsDesc(rows) ==
    IF Ascending(rows) THEN Reverse(rows) ELSE SortDesc(rows)

\* a LIMIT that keeps the last n rows of the ordered result
LimitLast(rows, n) ==
    IF Len(rows) <= n THEN rows
    ELSE SubSeq(rows, Len(rows) - n + 1, Len(rows))

\* LIMIT n
Limit(rows, n) == IF Len(rows) <= n THEN rows ELSE SubSeq(rows, 1, n)

Project(rows) == [i \in 1..Len(rows) |-> Columns(rows[i])]

\* HealthMonitor.get_recent_data(hours)
GetRecentData(rows, at, hours) ==
    Project(Limit(OrderByTsDesc(Matching(rows, at, hours)), RECENT_LIMIT))

\* app.py get_history with arguments hours and limit
GetHistory(rows, at, hours, limit) ==
    Reverse(Project(Limit(OrderByTsDesc(Matching(rows, at, hours)), limit)))

\* WHERE DATE(timestamp) = DATE('now')
TodayRows(rows, d) == SelectSeq(rows, LAMBDA r : r.day = d)

\* the sum of a sequence of numbers, by halves
RECURSIVE SeqSum(_)
SeqSum(xs) ==
    IF xs = <<>> THEN 0
    ELSE IF Len(xs) = 1 THEN xs[1]
    ELSE LET h == Len(xs) \div 2
         IN SeqSum(SubSeq(xs, 1, h)) + SeqSum(SubSeq(xs, h + 1, Len(xs)))

HeartRates(rows) == [i \in 1..Len(rows) |-> rows[i].heart_rate]
Spo2s(rows) == [i \in 1..Len(rows) |-> rows[i].spo2]

\* SQL aggregates: <<>> is NULL, <<v>> a value.  AVG is kept as the sum and
\* the number of rows.
SqlAvg(xs) ==
    IF xs = <<>> THEN <<>> ELSE <<[num |-> SeqSum(xs), den |-> Len(xs)]>>
SqlMin(xs) ==
    IF xs = <<>> THEN <<>>
    ELSE <<CHOOSE m \in {xs[i] : i \in 1..Len(xs)} :
              \A i \in 1..Len(xs) : m <= xs[i]>>
SqlMax(xs) ==
    IF xs = <<>> THEN <<>>
    ELSE <<CHOOSE m \in {xs[i] : i \in 1..Len(xs)} :
              \A i \in 1..Len(xs) : m >= xs[i]>>
\* SUM(CASE WHEN status = 'Alert' THEN 1 ELSE 0 END)
SqlSumAlerts(rows) ==
    IF rows = <<>> THEN <<>>
    ELSE <<Cardinality({i \in 1..Len(rows) : rows[i].status = "Alert"})>>

\* the aggregate passed on as it is, NULL as -1
OrMissing(x) == IF x = <<>> THEN -1 ELSE x[1]

\* x or 0
OrZero(x) == IF x = <<>> THEN 0 ELSE x[1]

\* round(avg or 0, 1), in tenths: the nearest tenth, a tie to the even one
RoundedAvg(a) ==
    IF a = <<>> THEN 0
    ELSE LET n == a[1].num * Scale
             d == a[1].den
             q == n \div d
             r == n % d
         IN IF 2 * r < d THEN q
            ELSE IF 2 * r > d THEN q + 1
            ELSE IF q % 2 = 0 THEN q ELSE q + 1

\* app.py get_statistics: the JSON it returns, averages in tenths
GetStatistics(rows, d) ==
    LET t == TodayRows(rows, d)
    IN [today |->
          [total_readings |-> Len(t),
           avg_hr |-> RoundedAvg(SqlAvg(HeartRates(t))),
           hr_min |-> OrZero(SqlMin(HeartRates(t))),
           hr_max |-> OrZero(SqlMax(HeartRates(t))),
           avg_spo2 |-> RoundedAvg(SqlAvg(Spo2s(t))),
           spo2_min |-> OrZero(SqlMin(Spo2s(t))),
           spo2_max |-> OrZero(SqlMax(Spo2s(t))),
           alert_count |-> OrZero(SqlSumAlerts(t))],
        all_time |->
          [total_readings |-> Len(rows),
           avg_hr |-> RoundedAvg(SqlAvg(HeartRates(rows))),
           avg_spo2 |-> RoundedAvg(SqlAvg(Spo2s(rows)))]]

\* the prober calls save_to_database(hr, spo2, status) with a classified
\* sample.  CURRENT_TIMESTAMP has a resolution of a second, and two appends
\* of the monitor are more than ten seconds apart (simulate_button_press).
ProbeAppend(t) ==
    /\ pc[t] = "q_idle"
    /\ nappends < MaxAppends
    /\ IF readings = <<>> THEN TRUE ELSE readings[Len(readings)].ts < now
    /\ \E s \in Samples :
          /\ hr' = [hr EXCEPT ![t] = s[1]]
          /\ spo2' = [spo2 EXCEPT ![t] = s[2]]
          /\ status' = [status EXCEPT ![t] = VitalsStatus(s[1], s[2])]
    /\ qresult' = NoResult
    /\ Goto(t, "db_insert")
    /\ UNCHANGED <<reg, flash, sent, result_count, current, running,
                   button_pressed, counters, pins, store, nsend, passes,
                   ghost, sensor, now, nticks>>

\* time passes.  Of what the prober was returned, only the statistics are
\* kept to the next call.
Tick(t) ==
    /\ pc[t] = "q_idle"
    /\ nticks < MaxTicks
    /\ nticks' = nticks + 1
    /\ \E d \in TickSteps :
          /\ now' = now + d
          /\ today' = DayOf(now + d)
    /\ qresult' = IF qresult.fn = "statistics"
                    THEN [qresult EXCEPT !.prev = <<>>] ELSE NoResult
    /\ UNCHANGED <<pc, sampleLocals, reg, flash, sent, result_count, current,
                   running, button_pressed, counters, pins, readings,
                   conn_open, nsend, passes, ghost, sensor>>

\* the prober calls get_recent_data(hours)
ProbeRecent(t) ==
    /\ pc[t] = "q_idle"
    /\ conn_open
    /\ \E h \in WindowHours :
          qresult' = [fn |-> "recent", hours |-> h, limit |-> RECENT_LIMIT,
                      at |-> now, n |-> Len(readings),
                      rows |-> GetRecentData(readings, now, h),
                      stats |-> <<>>, prev |-> <<>>]
    /\ UNCHANGED <<pc, sampleLocals, reg, flash, sent, result_count, current,
                   running, button_pressed, counters, pins, store, nsend,
                   passes, ghost, sensor, now, nticks>>

\* a request of /api/history?hours=h&limit=l
ProbeHistory(t) ==
    /\ pc[t] = "q_idle"
    /\ \E h \in WindowHours, l \in HistoryLimits :
          qresult' = [fn |-> "history", hours |-> h, limit |-> l,
                      at |-> now, n |-> Len(readings),
                      rows |-> GetHistory(readings, now, h, l),
                      stats |-> <<>>, prev |-> <<>>]
    /\ UNCHANGED <<pc, sampleLocals, reg, flash, sent, result_count, current,
                   running, button_pressed, counters, pins, store, nsend,
                   passes, ghost, sensor, now, nticks>>

\* a request of /api/statistics; prev keeps what the request before it
\* returned when that was one of /api/statistics too
ProbeStatistics(t) ==
    /\ pc[t] = "q_idle"
    /\ qresult' = [fn |-> "statistics", hours |-> 0, limit |-> 0,
                   at |-> now, n |-> Len(readings), rows |-> <<>>,
                   stats |-> <<GetStatistics(readings, today)>>,
                   prev |-> IF qresult.fn = "statistics"
                              THEN <<[at |-> qresult.at, n |-> qresult.n,
                                      stats |-> qresult.stats]>>
                              ELSE <<>>]
    /\ UNCHANGED <<pc, sampleLocals, reg, flash, sent, result_count, current,
                   running, button_pressed, counters, pins, store, nsend,
                   passes, ghost, sensor, now, nticks>>

\* a store as it may be found, the clock at the start of day 1, and any
\* sequence of appends, queries and advances of the clock
InitStore ==
    /\ InitMonitor
    /\ readings \in InitialStores \cup {BigStore}
    /\ hr = [t \in Threads |-> 0]
    /\ spo2 = [t \in Threads |-> 0]
    /\ pc = [t \in Threads |-> IF t = Prober THEN "q_idle" ELSE "off"]

NextStore ==
    \/ ProbeAppend(Prober)
    \/ SaveToDatabase(Prober)
    \/ Tick(Prober)
    \/ ProbeRecent(Prober)
    \/ ProbeHistory(Prober)
    \/ ProbeStatistics(Prober)

SpecStore == InitStore /\ [][NextStore]_vars

\* ================================================================== claims
\* positions inside button_callback from the assignment button_pressed = True
\* up to and including the assignment button_pressed = False
CyclePcs ==
    {"rs_hr", "rs_spo2", "cv_led1", "cv_led2", "cv_load", "cv_store",
     "cv_status", "db_insert", "rc_load", "rc_store", "sc_call", "sc_wait",
     "fl_on", "fl_off", "b_clear"}

\* thread t is executing a manual cycle
InManualCycle(t) == t # MainThread /\ pc[t] \in CyclePcs

\* neither activity is inside a sampling pass, a summary or a manual cycle
Quiescent ==
    /\ pc[MainThread] = "m_while"
    /\ pc[ButtonThread] \in {"s_while", "s_if", "t_done"}

\* C1: whatever the interleaving of button_callback invocations, at most one
\* manual cycle is executing at any time.
C1_MutualExclusion == Cardinality({t \in Threads : InManualCycle(t)}) <= 1

\* C2: button_pressed is true exactly while a manual cycle is executing.
C2_FlagIffCycle == button_pressed <=> InManualCycle(ButtonThread)

C4_TickPersists ==
    (pc[MainThread] = "m_sumchk" /\ status[MainThread] # "none") =>
       /\ \E i \in 1..Len(readings) :
             /\ readings[i].heart_rate = hr[MainThread]
             /\ readings[i].spo2 = spo2[MainThread]
             /\ readings[i].status = status[MainThread]
             /\ readings[i].day = today
       /\ reading_count >= nsamples

\* C5: between cycles, once a classification has been made, exactly one of
\* the red and green outputs is on, the one matching current_status.
C5_IndicatorExclusive ==
    (Quiescent /\ nsamples > 0) =>
       /\ pins[RED_LED] # pins[GREEN_LED]
       /\ pins[GREEN_LED] <=> (current_status = "Normal")

\* C6: between cycles, current_status is the classification of
\* (current_hr, current_spo2).
C6_CurrentReadingConsistent ==
    Quiescent => current_status = VitalsStatus(current_hr, current_spo2)

\* C7: no step makes alert_count or reading_count smaller.
C7_CountersMonotonic ==
    [][alert_count' >= alert_count /\ reading_count' >= reading_count]_vars

\* C8: a storage error ends no thread: the main thread and the button thread
\* keep running, and button_pressed is false again outside a manual cycle.
C8_StorageErrorAbortsOnlyCycle ==
    /\ pc[MainThread] # "m_crashed"
    /\ pc[ButtonThread] # "t_crashed"
    /\ ~InManualCycle(ButtonThread) => ~button_pressed

\* C9: the step on which send_to_cloud returns False raises nothing, starts
\* no other send, and leaves the current reading, the counters and the store
\* as they were; in a manual cycle the next statement is the one that clears
\* button_pressed (no flash), and that statement clears it and returns.
C9_FailedUplinkIsValue ==
    [][\A t \in Threads :
          /\ (sent[t] # "fail" /\ sent'[t] = "fail") =>
                /\ UNCHANGED <<current, counters, readings, pins>>
                /\ nsend'[t] = nsend[t]
                /\ pc'[t] = (IF t = MainThread THEN "ds_done" ELSE "b_clear")
          /\ (t # MainThread /\ pc[t] = "b_clear" /\ pc'[t] # "b_clear") =>
                /\ ~button_pressed'
                /\ pc'[t] = AfterCallback(t)]_vars

\* a manual cycle whose send failed stands at the clearing statement, the
\* reading it saved in the store
C9_Witness ==
    /\ pc[ButtonThread] = "b_clear"
    /\ sent[ButtonThread] = "fail"
    /\ button_pressed
    /\ \E i \in 1..Len(readings) : readings[i].day = today

\* C10: for hr in 0..300 and spo2 in 0..100, check_vitals returns Normal
\* exactly when 60 <= hr <= 100 and spo2 >= 95, and Alert otherwise.
C10_Classification ==
    pc[Classifier] = "db_insert" =>
       /\ status[Classifier] \in {"Normal", "Alert"}
       /\ status[Classifier] = "Normal" <=>
             (60 <= hr[Classifier] /\ hr[Classifier] <= 100
              /\ spo2[Classifier] >= 95)
       /\ current_status = status[Classifier]

\* the boundary pair (60, 95) has been classified, as Normal; so have
\* (100, 95), and (75, 98); (110, 98) and (75, 92) are covered by the domain
C10_Witness ==
    /\ pc[Classifier] = "db_insert"
    /\ hr[Classifier] = 60
    /\ spo2[Classifier] = 95
    /\ status[Classifier] = "Normal"

\* C11: after any sequence of read and simulate_activity calls, the pair a
\* read returned has its heart rate in 50..130 and its spo2 in 90..100, and
\* the trends are within -5..5 and -2..2.
C11_SampleInRange ==
    /\ pc[Prober] = "sn_sampled" =>
          /\ 50 <= hr[Prober] /\ hr[Prober] <= 130
          /\ 90 <= spo2[Prober] /\ spo2[Prober] <= 100
    /\ -5 * Scale <= sensor.hr_trend /\ sensor.hr_trend <= 5 * Scale
    /\ -2 * Scale <= sensor.spo2_trend /\ sensor.spo2_trend <= 2 * Scale

\* both trends at their upper ends after an activity change to 110: the read
\* returns 118, and 101 clamped to 100
C11_Witness ==
    /\ pc[Prober] = "sn_sampled"
    /\ sensor.base_hr = 110
    /\ sensor.hr_trend = 5 * Scale
    /\ sensor.spo2_trend = 2 * Scale
    /\ hr[Prober] = 118
    /\ spo2[Prober] = 100

\* C12: once shutdown has completed (run has executed conn.close()), the store
\* handle is closed and both the red and the green LED output are off.
C12_ShutdownReleasesAll ==
    pc[MainThread] = "x_done" =>
        /\ ~conn_open
        /\ ~pins[RED_LED]
        /\ ~pins[GREEN_LED]

\* the row the prober's last append wrote, as a query returns it
LastAppended == Columns(readings[Len(readings)])

\* the number of times row r occurs in the rows a query returned
Occurrences(r) ==
    Cardinality({i \in 1..Len(qresult.rows) : qresult.rows[i] = r})

\* successive appends were given strictly increasing ids
IdsIncrease ==
    \A i \in 1..(Len(readings) - 1) : readings[i].id < readings[i + 1].id

InClosedWindow ==
    {Columns(readings[i]) : i \in {j \in 1..Len(readings) :
        /\ readings[j].ts >= qresult.at - qresult.hours * HourSeconds
        /\ readings[j].ts <= qresult.at}}
InOpenWindow ==
    {Columns(readings[i]) : i \in {j \in 1..Len(readings) :
        readings[j].ts > qresult.at - qresult.hours * HourSeconds}}
Returned == {qresult.rows[i] : i \in 1..Len(qresult.rows)}

NoneToday ==
    [total_readings |-> 0, avg_hr |-> 0, hr_min |-> 0, hr_max |-> 0,
     avg_spo2 |-> 0, spo2_min |-> 0, spo2_max |-> 0, alert_count |-> 0]
NoneEver == [total_readings |-> 0, avg_hr |-> 0, avg_spo2 |-> 0]

\* get_statistics has just returned
StatisticsReturned == qresult.fn = "statistics" /\ qresult.at = now

NeutralWhenNoneMatch ==
    /\ (StatisticsReturned /\ CountToday(readings, today) = 0)
          => qresult.stats[1].today = NoneToday
    /\ (StatisticsReturned /\ readings = <<>>)
          => qresult.stats[1].all_time = NoneEver

\* C15 as stated: get_statistics over a store with no reading of today
\* returns count 0, averages 0, min and max 0 and alert count 0 (and the same
\* for all time when the store is empty); and two calls of it with no append
\* between them return the same.
C15_NeutralAndRepeatable ==
    /\ NeutralWhenNoneMatch
    /\ (StatisticsReturned /\ qresult.prev # <<>>)
          => qresult.prev[1].stats = qresult.stats

\* C15: get_statistics over a store with no reading of today returns count 0,
\* averages 0, min and max 0 and alert count 0 (and the same for all time
\* when the store is empty); and two calls of it on the same date with no
\* append between them return the same.
C15_NeutralAndRepeatableWithinDay ==
    /\ NeutralWhenNoneMatch
    /\ (/\ StatisticsReturned
        /\ qresult.prev # <<>>
        /\ DayOf(qresult.prev[1].at) = DayOf(qresult.at))
          => qresult.prev[1].stats = qresult.stats

\* get_statistics called twice, a second apart, on a store whose only
\* readings are of the day before
C15_Witness ==
    /\ StatisticsReturned
    /\ qresult.prev # <<>>
    /\ qresult.prev[1].at < qresult.at
    /\ DayOf(qresult.prev[1].at) = DayOf(qresult.at)
    /\ readings # <<>>
    /\ CountToday(readings, today) = 0
    /\ qresult.stats[1].today = NoneToday

\* monitor_loop starts a sampling pass: read_sensors, check_vitals, display
SamplingTick == LoopWhile /\ pc'[MainThread] = "rs_hr"

\* C16: while the send_to_cloud call of daily_summary has started and not
\* returned, monitor_loop can start a sampling pass.
C16_UplinkDoesNotBlockSampling ==
    pc[MainThread] = "sc_wait" => ENABLED SamplingTick

\* run is past button_thread.join()
Joined == pc[MainThread] \in {"x_cleanup", "x_close", "x_done"}

\* C17 (safety): once run has joined the button thread, that thread has left
\* simulate_button_press by its loop test, any manual cycle completed; the
\* connection is never closed while button_pressed is set; and after it is
\* closed no thread is inside a manual cycle, a sampling pass or a summary.
C17_CooperativeShutdown ==
    /\ Joined => pc[ButtonThread] = "t_done"
    /\ ~conn_open => ~button_pressed
    /\ ~conn_open =>
          /\ \A t \in Threads : ~InManualCycle(t)
          /\ pc[MainThread] \notin MonitorPcs

\* the reading thread t took is a row of the store
Persisted(t) ==
    \E i \in 1..Len(readings) :
        /\ readings[i].heart_rate = hr[t]
        /\ readings[i].spo2 = spo2[t]
        /\ readings[i].status = status[t]
        /\ readings[i].day = today

\* positions of button_callback from the call of send_to_cloud on
SentPcs == {"sc_wait", "fl_on", "fl_off", "b_clear"}

\* C18: from the moment a manual cycle calls send_to_cloud, whatever the
\* result, the reading it took is a row of the store; and no step changes or
\* removes a row of the store.
C18_PersistedBeforeUplink ==
    /\ [](\A t \in Threads :
            (t # MainThread /\ pc[t] \in SentPcs) => Persisted(t))
    /\ [][/\ Len(readings') >= Len(readings)
          /\ \A i \in 1..Len(readings) : readings'[i] = readings[i]]_vars

\* the send of the second manual cycle has failed and both its reading and
\* the one of the first cycle are in the store
C18_Witness ==
    /\ pc[ButtonThread] = "b_clear"
    /\ sent[ButtonThread] = "fail"
    /\ nappends = 2
    /\ Persisted(ButtonThread)
    /\ \E i \in 1..Len(readings) :
          readings[i].id < readings[Len(readings)].id

\* C19: the alert count daily_summary prints is the number of readings with
\* status Alert that the store held for today when the summary queried it,
\* which is the alert_count get_statistics computes over the same rows.
C19_SummaryAlertsFromStore ==
    summary_alerts.printed # -1 =>
        /\ summary_alerts.printed = summary_alerts.stored
        /\ (summary_alerts.stored = AlertsToday(readings, today)) =>
              summary_alerts.printed =
                  GetStatistics(readings, today).today.alert_count

\* C20: when monitor_loop is between passes and the button thread between
\* manual cycles, alert_count is the number of classifications that returned
\* Alert and reading_count the number of committed appends.
C20_NoLostUpdates ==
    Quiescent =>
        /\ alert_count = nalerts
        /\ reading_count = nappends

====
